---- MODULE Spec2Model ----
(***************************************************************************)
(* A model of the CHIP-8 interpreter core of this repository: class Chip8  *)
(* (include/chip8.h) and its opcode handlers (src/chip8.cpp).              *)
(*                                                                         *)
(* The machine is a record with one field per data member of Chip8.  Every *)
(* opcode handler is an operator from a machine record to the machine      *)
(* record the handler leaves behind.  Array accesses outside the declared  *)
(* bounds are undefined behaviour in C++; an access of that kind sets the  *)
(* field ub and its outcome depends on a mode chosen per cycle:            *)
(*   "layout" the access lands on the neighbouring data member that the    *)
(*            declaration order of chip8.h puts at that byte offset,       *)
(*   "zero"   writes are lost, reads give 0,                               *)
(*   "ones"   writes are lost, reads give all-ones.                        *)
(* A 32-bit framebuffer cell is held as the signed 32-bit integer with the *)
(* same bit pattern, so 0xFFFFFFFF is -1 and x ^ 0xFFFFFFFF is -x - 1.     *)
(***************************************************************************)
EXTENDS Integers, Sequences, FiniteSets, TLC

VARIABLES registers, memory, index, pc, stack, sp, delayTimer, soundTimer,
          keypad, video, opcode, ub, halted,
          loaded, cycles, keyEvents, prev, prev2

vars == <<registers, memory, index, pc, stack, sp, delayTimer, soundTimer,
          keypad, video, opcode, ub, halted,
          loaded, cycles, keyEvents, prev, prev2>>

(***************************************************************************)
(* registers .. opcode are the data members of Chip8.  The others record   *)
(* the run: ub (the last cycle accessed an array out of bounds), halted    *)
(* (a call through a pointer read past a dispatch table ended the run),    *)
(* loaded (loadROM has run), cycles and keyEvents (counts of Cycle and     *)
(* ProcessInput calls), prev and prev2 (the machine as the last cycle and  *)
(* the one before it found it).                                            *)
(***************************************************************************)

(***************************************************************************)
(* Bounds of the exploration.                                              *)
(***************************************************************************)
MaxCycles == 7
MaxKeyEvents == 1
MaxIdleCycles == 1920
IdleStride == 64

(***************************************************************************)
(* Program constants.                                                      *)
(***************************************************************************)
START_ADDRESS == 512
FONTSET_START_ADDRESS == 80
FONTSET_SIZE == 80
VIDEO_WIDTH == 32
VIDEO_HEIGHT == 64
MEMORY_SIZE == 4096
NUM_REGISTERS == 16
STACK_SIZE == 16
NUM_KEYS == 16
VIDEO_SIZE == 2048
PIXEL_ON == -1
PIXEL_OFF == 0

fontset ==
  << 240, 144, 144, 144, 240,
      32,  96,  32,  32, 112,
     240,  16, 240, 128, 240,
     240,  16, 240,  16, 240,
     144, 144, 240,  16,  16,
     240, 128, 240,  16, 240,
     240, 128, 240, 144, 240,
     240,  16,  32,  64,  64,
     240, 144, 240, 144, 240,
     240, 144, 240,  16, 240,
     240, 144, 240, 144, 144,
     224, 144, 224, 144, 224,
     240, 128, 128, 128, 240,
     224, 144, 144, 144, 224,
     240, 128, 240, 128, 240,
     240, 128, 240, 128, 128 >>

(***************************************************************************)
(* Fixed-width arithmetic.                                                 *)
(***************************************************************************)
U8(n) == n % 256
U16(n) == n % 65536

RECURSIVE BitAnd(_, _, _)
BitAnd(a, b, w) ==
  IF w = 0 THEN 0
  ELSE (IF a % 2 = 1 /\ b % 2 = 1 THEN 1 ELSE 0) + 2 * BitAnd(a \div 2, b \div 2, w - 1)

RECURSIVE BitOr(_, _, _)
BitOr(a, b, w) ==
  IF w = 0 THEN 0
  ELSE (IF a % 2 = 1 \/ b % 2 = 1 THEN 1 ELSE 0) + 2 * BitOr(a \div 2, b \div 2, w - 1)

RECURSIVE BitXor(_, _, _)
BitXor(a, b, w) ==
  IF w = 0 THEN 0
  ELSE (IF a % 2 # b % 2 THEN 1 ELSE 0) + 2 * BitXor(a \div 2, b \div 2, w - 1)

(* operand fields of the instruction word *)
OpVx(op) == (op \div 256) % 16
OpVy(op) == (op \div 16) % 16
OpKK(op) == op % 256
OpNNN(op) == op % 4096
OpN(op) == op % 16
OpFamily(op) == op \div 4096

(***************************************************************************)
(* Byte layout of a Chip8 object: the data members in declaration order.   *)
(***************************************************************************)
OFF_MEMORY == 16
OFF_INDEX == 4112
OFF_PC == 4114
OFF_STACK == 4116
OFF_SP == 4148
OFF_DELAY == 4149
OFF_SOUND == 4150
OFF_KEYPAD == 4151
OFF_VIDEO == 4168
OFF_OPCODE == 12360

(* byte k (0 = least significant) of a 32-bit cell held as a signed value *)
CellByte(v, k) ==
  LET b0 == v % 256
      r1 == (v - b0) \div 256
      b1 == r1 % 256
      r2 == (r1 - b1) \div 256
      b2 == r2 % 256
      r3 == (r2 - b2) \div 256
      b3 == r3 % 256
  IN  CASE k = 0 -> b0 [] k = 1 -> b1 [] k = 2 -> b2 [] OTHER -> b3

CellOfBytes(b0, b1, b2, b3) ==
  b0 + 256 * b1 + 65536 * b2 + 16777216 * (IF b3 >= 128 THEN b3 - 256 ELSE b3)

CellSetByte(v, k, b) ==
  CellOfBytes(IF k = 0 THEN b ELSE CellByte(v, 0),
              IF k = 1 THEN b ELSE CellByte(v, 1),
              IF k = 2 THEN b ELSE CellByte(v, 2),
              IF k = 3 THEN b ELSE CellByte(v, 3))

SetLow(w, b) == (w \div 256) * 256 + b
SetHigh(w, b) == b * 256 + (w % 256)

(* the byte found at offset off of the object *)
PeekByte(s, off) ==
  CASE off < OFF_MEMORY -> s.registers[off]
    [] off >= OFF_MEMORY /\ off < OFF_INDEX -> s.memory[off - OFF_MEMORY]
    [] off = OFF_INDEX -> s.index % 256
    [] off = OFF_INDEX + 1 -> s.index \div 256
    [] off = OFF_PC -> s.pc % 256
    [] off = OFF_PC + 1 -> s.pc \div 256
    [] off >= OFF_STACK /\ off < OFF_SP ->
         IF (off - OFF_STACK) % 2 = 0
         THEN s.stack[(off - OFF_STACK) \div 2] % 256
         ELSE s.stack[(off - OFF_STACK) \div 2] \div 256
    [] off = OFF_SP -> s.sp
    [] off = OFF_DELAY -> s.delayTimer
    [] off = OFF_SOUND -> s.soundTimer
    [] off >= OFF_KEYPAD /\ off < OFF_KEYPAD + NUM_KEYS -> s.keypad[off - OFF_KEYPAD]
    [] off >= OFF_VIDEO /\ off < OFF_OPCODE ->
         CellByte(s.video[(off - OFF_VIDEO) \div 4], (off - OFF_VIDEO) % 4)
    [] off = OFF_OPCODE -> s.opcode % 256
    [] off = OFF_OPCODE + 1 -> s.opcode \div 256
    [] OTHER -> 0

(* the object after byte b is stored at offset off *)
PokeByte(s, off, b) ==
  CASE off < OFF_MEMORY -> [s EXCEPT !.registers[off] = b]
    [] off >= OFF_MEMORY /\ off < OFF_INDEX -> [s EXCEPT !.memory[off - OFF_MEMORY] = b]
    [] off = OFF_INDEX -> [s EXCEPT !.index = SetLow(@, b)]
    [] off = OFF_INDEX + 1 -> [s EXCEPT !.index = SetHigh(@, b)]
    [] off = OFF_PC -> [s EXCEPT !.pc = SetLow(@, b)]
    [] off = OFF_PC + 1 -> [s EXCEPT !.pc = SetHigh(@, b)]
    [] off >= OFF_STACK /\ off < OFF_SP ->
         IF (off - OFF_STACK) % 2 = 0
         THEN [s EXCEPT !.stack[(off - OFF_STACK) \div 2] = SetLow(@, b)]
         ELSE [s EXCEPT !.stack[(off - OFF_STACK) \div 2] = SetHigh(@, b)]
    [] off = OFF_SP -> [s EXCEPT !.sp = b]
    [] off = OFF_DELAY -> [s EXCEPT !.delayTimer = b]
    [] off = OFF_SOUND -> [s EXCEPT !.soundTimer = b]
    [] off >= OFF_KEYPAD /\ off < OFF_KEYPAD + NUM_KEYS ->
         [s EXCEPT !.keypad[off - OFF_KEYPAD] = b]
    [] off >= OFF_VIDEO /\ off < OFF_OPCODE ->
         [s EXCEPT !.video[(off - OFF_VIDEO) \div 4] =
                      CellSetByte(@, (off - OFF_VIDEO) % 4, b)]
    [] off = OFF_OPCODE -> [s EXCEPT !.opcode = SetLow(@, b)]
    [] off = OFF_OPCODE + 1 -> [s EXCEPT !.opcode = SetHigh(@, b)]
    [] OTHER -> s

UBModes == {"layout", "zero", "ones"}

(* a byte read outside the bounds of its array *)
WildRead(s, off, mode) ==
  CASE mode = "layout" -> PeekByte(s, off)
    [] mode = "zero" -> 0
    [] OTHER -> 255

(* a byte written outside the bounds of its array *)
WildWrite(s, off, b, mode) ==
  [(IF mode = "layout" THEN PokeByte(s, off, b) ELSE s) EXCEPT !.ub = TRUE]

(* memory[a] as an rvalue *)
ReadMem(s, a, mode) ==
  IF a < MEMORY_SIZE THEN s.memory[a] ELSE WildRead(s, OFF_MEMORY + a, mode)

(* memory[a] = b *)
WriteMem(s, a, b, mode) ==
  IF a < MEMORY_SIZE THEN [s EXCEPT !.memory[a] = b]
  ELSE WildWrite(s, OFF_MEMORY + a, b, mode)

(* stack[k] as an rvalue *)
ReadStack(s, k, mode) ==
  IF k < STACK_SIZE THEN s.stack[k]
  ELSE WildRead(s, OFF_STACK + 2 * k, mode) + 256 * WildRead(s, OFF_STACK + 2 * k + 1, mode)

(* stack[k] = v *)
WriteStack(s, k, v, mode) ==
  IF k < STACK_SIZE THEN [s EXCEPT !.stack[k] = v]
  ELSE WildWrite(WildWrite(s, OFF_STACK + 2 * k, v % 256, mode),
                 OFF_STACK + 2 * k + 1, v \div 256, mode)

(* keypad[k] as an rvalue *)
ReadKey(s, k, mode) ==
  IF k < NUM_KEYS THEN s.keypad[k] ELSE WildRead(s, OFF_KEYPAD + k, mode)

(* video[i] as an rvalue *)
ReadVideo(s, i, mode) ==
  IF i < VIDEO_SIZE THEN s.video[i]
  ELSE CellOfBytes(WildRead(s, OFF_VIDEO + 4 * i, mode),
                   WildRead(s, OFF_VIDEO + 4 * i + 1, mode),
                   WildRead(s, OFF_VIDEO + 4 * i + 2, mode),
                   WildRead(s, OFF_VIDEO + 4 * i + 3, mode))

(* video[i] = v *)
WriteVideo(s, i, v, mode) ==
  IF i < VIDEO_SIZE THEN [s EXCEPT !.video[i] = v]
  ELSE WildWrite(WildWrite(WildWrite(WildWrite(s,
         OFF_VIDEO + 4 * i, CellByte(v, 0), mode),
         OFF_VIDEO + 4 * i + 1, CellByte(v, 1), mode),
         OFF_VIDEO + 4 * i + 2, CellByte(v, 2), mode),
         OFF_VIDEO + 4 * i + 3, CellByte(v, 3), mode)

Flag(s, c) == [s EXCEPT !.ub = @ \/ c]

(***************************************************************************)
(* The opcode handlers of src/chip8.cpp.  s is the machine after the fetch *)
(* (opcode set, pc already advanced by 2).                                 *)
(***************************************************************************)
(* OP_00E0 with the cell count passed to memset as the byte count *)
OP_00E0_CountAsBytes(s) ==
  [s EXCEPT !.video = [i \in 0..(VIDEO_SIZE - 1) |->
                         IF i < VIDEO_SIZE \div 4 THEN PIXEL_OFF ELSE s.video[i]]]

OP_00E0(s) ==
  [s EXCEPT !.video = [i \in 0..(VIDEO_SIZE - 1) |-> PIXEL_OFF]]

OP_00EE(s, mode) ==
  LET sp1 == U8(s.sp - 1)
      s1 == Flag([s EXCEPT !.sp = sp1], sp1 >= STACK_SIZE)
  IN  [s1 EXCEPT !.pc = ReadStack(s1, sp1, mode)]

OP_1nnn(s) ==
  [s EXCEPT !.pc = OpNNN(s.opcode)]

OP_2nnn(s, mode) ==
  LET address == OpNNN(s.opcode)
      s1 == WriteStack(s, s.pc, s.pc, mode)
      s2 == [s1 EXCEPT !.sp = U8(@ + 1)]
  IN  [s2 EXCEPT !.pc = address]

(* OP_3xkk that steps back onto itself when the operands are equal *)
OP_3xkk_StepsBack(s) ==
  LET Vx == OpVx(s.opcode)
      kk == OpKK(s.opcode)
  IN  IF s.registers[Vx] = kk THEN [s EXCEPT !.pc = U16(@ - 2)] ELSE s

OP_3xkk(s) ==
  LET Vx == OpVx(s.opcode)
      kk == OpKK(s.opcode)
  IN  IF s.registers[Vx] = kk THEN [s EXCEPT !.pc = U16(@ + 2)] ELSE s

(* OP_4xkk with the comparison of OP_3xkk *)
OP_4xkk_SkipOnEqual(s) ==
  LET Vx == OpVx(s.opcode)
      kk == OpKK(s.opcode)
  IN  IF s.registers[Vx] = kk THEN [s EXCEPT !.pc = U16(@ + 2)] ELSE s

OP_4xkk(s) ==
  LET Vx == OpVx(s.opcode)
      kk == OpKK(s.opcode)
  IN  IF s.registers[Vx] # kk THEN [s EXCEPT !.pc = U16(@ + 2)] ELSE s

OP_5xy0(s) ==
  LET Vx == OpVx(s.opcode)
      Vy == OpVy(s.opcode)
  IN  IF s.registers[Vx] = s.registers[Vy] THEN [s EXCEPT !.pc = U16(@ + 2)] ELSE s

OP_6xkk(s) ==
  [s EXCEPT !.registers[OpVx(s.opcode)] = OpKK(s.opcode)]

OP_7xkk(s) ==
  [s EXCEPT !.registers[OpVx(s.opcode)] = U8(@ + OpKK(s.opcode))]

OP_8xy0(s) ==
  [s EXCEPT !.registers[OpVx(s.opcode)] = s.registers[OpVy(s.opcode)]]

OP_8xy1(s) ==
  [s EXCEPT !.registers[OpVx(s.opcode)] = BitOr(@, s.registers[OpVy(s.opcode)], 8)]

OP_8xy2(s) ==
  [s EXCEPT !.registers[OpVx(s.opcode)] = BitAnd(@, s.registers[OpVy(s.opcode)], 8)]

OP_8xy3(s) ==
  [s EXCEPT !.registers[OpVx(s.opcode)] = BitXor(@, s.registers[OpVy(s.opcode)], 8)]

(* OP_8xy4 with the carry raised from 255 on instead of from 256 on *)
OP_8xy4_CarryAt255(s) ==
  LET Vx == OpVx(s.opcode)
      Vy == OpVy(s.opcode)
      sum == s.registers[Vx] + s.registers[Vy]
      s1 == [s EXCEPT !.registers[15] = IF sum >= 255 THEN 1 ELSE 0]
  IN  [s1 EXCEPT !.registers[Vx] = sum % 256]

OP_8xy4(s) ==
  LET Vx == OpVx(s.opcode)
      Vy == OpVy(s.opcode)
      sum == s.registers[Vx] + s.registers[Vy]
      s1 == [s EXCEPT !.registers[15] = IF sum > 255 THEN 1 ELSE 0]
  IN  [s1 EXCEPT !.registers[Vx] = sum % 256]

OP_8xy5(s) ==
  LET Vx == OpVx(s.opcode)
      Vy == OpVy(s.opcode)
      s1 == [s EXCEPT !.registers[15] =
                        IF s.registers[Vx] > s.registers[Vy] THEN 1 ELSE 0]
  IN  [s1 EXCEPT !.registers[Vx] = U8(s1.registers[Vx] - s1.registers[Vy])]

OP_8xy6(s) ==
  LET Vx == OpVx(s.opcode)
      s1 == [s EXCEPT !.registers[15] = s.registers[Vx] % 2]
  IN  [s1 EXCEPT !.registers[Vx] = s1.registers[Vx] \div 2]

OP_8xy7(s) ==
  LET Vx == OpVx(s.opcode)
      Vy == OpVy(s.opcode)
      s1 == [s EXCEPT !.registers[15] =
                        IF s.registers[Vy] > s.registers[Vx] THEN 1 ELSE 0]
  IN  [s1 EXCEPT !.registers[Vx] = U8(s1.registers[Vy] - s1.registers[Vx])]

OP_8xyE(s) ==
  LET Vx == OpVx(s.opcode)
      s1 == [s EXCEPT !.registers[15] = BitAnd(s.registers[Vx], 128, 8)]
  IN  [s1 EXCEPT !.registers[Vx] = U8(s1.registers[Vx] * 2)]

OP_9xy0(s) ==
  LET Vx == OpVx(s.opcode)
      Vy == OpVy(s.opcode)
  IN  IF s.registers[Vx] # s.registers[Vy] THEN [s EXCEPT !.pc = U16(@ + 2)] ELSE s

OP_Annn(s) ==
  [s EXCEPT !.index = OpNNN(s.opcode)]

OP_Bnnn(s) ==
  [s EXCEPT !.pc = U16(s.registers[0] + OpNNN(s.opcode))]

(* rnd is the byte randByte(randGen) returns *)
OP_Cxkk(s, rnd) ==
  [s EXCEPT !.registers[OpVx(s.opcode)] = BitAnd(rnd, OpKK(s.opcode), 8)]

(* the body of the inner loop of OP_Dxyn for pixel k = row * 8 + col *)
DrawPixel(s, k, xPos, yPos, mode) ==
  LET row == k \div 8
      col == k % 8
      spriteByte == ReadMem(s, s.index + row, mode)
      spritePixel == BitAnd(spriteByte, 2 ^ (7 - col), 8)
      cell == (xPos + col) + (yPos + row) * VIDEO_WIDTH
      old == ReadVideo(s, cell, mode)
      s1 == Flag(s, s.index + row >= MEMORY_SIZE)
      s2 == IF old = PIXEL_ON THEN [s1 EXCEPT !.registers[15] = 1] ELSE s1
  IN  IF spritePixel # 0 THEN WriteVideo(s2, cell, -old - 1, mode) ELSE s1

RECURSIVE DrawLoop(_, _, _, _, _, _)
DrawLoop(s, k, n, xPos, yPos, mode) ==
  IF k >= 8 * n THEN s
  ELSE LET t == DrawPixel(s, k, xPos, yPos, mode)
       IN  (* the test makes TLC evaluate t before it goes on to pixel k + 1 *)
           IF t.ub \in BOOLEAN THEN DrawLoop(t, k + 1, n, xPos, yPos, mode) ELSE t

OP_Dxyn(s, mode) ==
  LET Vx == OpVx(s.opcode)
      Vy == OpVy(s.opcode)
      n == OpN(s.opcode)
      xPos == s.registers[Vx] % VIDEO_WIDTH
      yPos == s.registers[Vy] % VIDEO_HEIGHT
      s1 == [s EXCEPT !.registers[15] = 0]
  IN  DrawLoop(s1, 0, n, xPos, yPos, mode)

OP_Ex9E(s, mode) ==
  LET key == s.registers[OpVx(s.opcode)]
      s1 == Flag(s, key >= NUM_KEYS)
  IN  IF ReadKey(s, key, mode) # 0 THEN [s1 EXCEPT !.pc = U16(@ + 2)] ELSE s1

OP_ExA1(s, mode) ==
  LET key == s.registers[OpVx(s.opcode)]
      s1 == Flag(s, key >= NUM_KEYS)
  IN  IF ReadKey(s, key, mode) = 0 THEN [s1 EXCEPT !.pc = U16(@ + 2)] ELSE s1

OP_Fx07(s) ==
  [s EXCEPT !.registers[OpVx(s.opcode)] = s.delayTimer]

(* the chain read from keypad[15] down to keypad[k] *)
FirstKey_FromTheTop(kp, k) ==
  IF \A j \in k..(NUM_KEYS - 1) : kp[j] = 0 THEN NUM_KEYS
  ELSE CHOOSE j \in k..(NUM_KEYS - 1) :
         kp[j] # 0 /\ \A i \in (j + 1)..(NUM_KEYS - 1) : kp[i] = 0

(* the first key of the else/if chain that is down, NUM_KEYS when none is *)
RECURSIVE FirstKey(_, _)
FirstKey(kp, k) ==
  IF k >= NUM_KEYS THEN NUM_KEYS
  ELSE IF kp[k] # 0 THEN k ELSE FirstKey(kp, k + 1)

(* OP_Fx0A without the step back when no key is down *)
OP_Fx0A_NoStall(s) ==
  LET Vx == OpVx(s.opcode)
      key == FirstKey(s.keypad, 0)
  IN  IF key < NUM_KEYS THEN [s EXCEPT !.registers[Vx] = key] ELSE s

OP_Fx0A(s) ==
  LET Vx == OpVx(s.opcode)
      key == FirstKey(s.keypad, 0)
  IN  IF key < NUM_KEYS THEN [s EXCEPT !.registers[Vx] = key]
      ELSE [s EXCEPT !.pc = U16(@ - 2)]

OP_Fx15(s) ==
  [s EXCEPT !.delayTimer = s.registers[OpVx(s.opcode)]]

OP_Fx18(s) ==
  [s EXCEPT !.soundTimer = s.registers[OpVx(s.opcode)]]

OP_Fx1E(s) ==
  [s EXCEPT !.index = U16(@ + s.registers[OpVx(s.opcode)])]

OP_Fx29(s) ==
  [s EXCEPT !.index = U16(FONTSET_START_ADDRESS + 5 * s.registers[OpVx(s.opcode)])]

OP_Fx33(s, mode) ==
  LET Vx == OpVx(s.opcode)
      value == s.registers[Vx]
      s1 == WriteMem(s, s.index + 2, value % 10, mode)
      value1 == value \div 10
      s2 == WriteMem(s1, s1.index + 1, value1 % 10, mode)
  IN  WriteMem(s2, s2.index, value1 % 10, mode)

(* Fx55 and Fx65 are declared in chip8.h and have no body in chip8.cpp *)
RECURSIVE StoreLoop(_, _, _, _)
StoreLoop(s, i, Vx, mode) ==
  IF i > Vx THEN s
  ELSE StoreLoop(WriteMem(s, s.index + i, s.registers[i], mode), i + 1, Vx, mode)

(* Fx55 that stops one register short of x *)
OP_Fx55_ExcludesVx(s, mode) ==
  StoreLoop(s, 0, OpVx(s.opcode) - 1, mode)

OP_Fx55(s, mode) ==
  StoreLoop(s, 0, OpVx(s.opcode), mode)

RECURSIVE LoadLoop(_, _, _, _)
LoadLoop(s, i, Vx, mode) ==
  IF i > Vx THEN s
  ELSE LoadLoop(Flag([s EXCEPT !.registers[i] = ReadMem(s, s.index + i, mode)],
                     s.index + i >= MEMORY_SIZE),
                i + 1, Vx, mode)

OP_Fx65(s, mode) ==
  LoadLoop(s, 0, OpVx(s.opcode), mode)

(***************************************************************************)
(* The dispatch tables.  chip8.h declares their sizes and fills them with  *)
(* NULL; the rules bound to the slots are the 35 rules of the instruction  *)
(* set, keyed by the family nibble and then by the low nibble (families 0, *)
(* 8, E) or the low byte (family F).                                       *)
(***************************************************************************)
TABLE_SIZE == 16
TABLE0_SIZE == 15
TABLE8_SIZE == 15
TABLEE_SIZE == 15
TABLEF_SIZE == 102

table(i) ==
  CASE i = 0 -> "Table0"   [] i = 1 -> "OP_1nnn"  [] i = 2 -> "OP_2nnn"
    [] i = 3 -> "OP_3xkk"  [] i = 4 -> "OP_4xkk"  [] i = 5 -> "OP_5xy0"
    [] i = 6 -> "OP_6xkk"  [] i = 7 -> "OP_7xkk"  [] i = 8 -> "Table8"
    [] i = 9 -> "OP_9xy0"  [] i = 10 -> "OP_Annn" [] i = 11 -> "OP_Bnnn"
    [] i = 12 -> "OP_Cxkk" [] i = 13 -> "OP_Dxyn" [] i = 14 -> "TableE"
    [] OTHER -> "TableF"

table0(i) ==
  CASE i = 0 -> "OP_00E0" [] i = 14 -> "OP_00EE" [] OTHER -> "NULL"

table8(i) ==
  CASE i = 0 -> "OP_8xy0" [] i = 1 -> "OP_8xy1" [] i = 2 -> "OP_8xy2"
    [] i = 3 -> "OP_8xy3" [] i = 4 -> "OP_8xy4" [] i = 5 -> "OP_8xy5"
    [] i = 6 -> "OP_8xy6" [] i = 7 -> "OP_8xy7" [] i = 14 -> "OP_8xyE"
    [] OTHER -> "NULL"

tableE(i) ==
  CASE i = 1 -> "OP_ExA1" [] i = 14 -> "OP_Ex9E" [] OTHER -> "NULL"

tableF(i) ==
  CASE i = 7 -> "OP_Fx07"  [] i = 10 -> "OP_Fx0A" [] i = 21 -> "OP_Fx15"
    [] i = 24 -> "OP_Fx18" [] i = 30 -> "OP_Fx1E" [] i = 41 -> "OP_Fx29"
    [] i = 51 -> "OP_Fx33" [] i = 85 -> "OP_Fx55" [] i = 101 -> "OP_Fx65"
    [] OTHER -> "NULL"

(* a slot read past the end of its table: the tables are adjacent members *)
WildSlot(neighbour, mode) ==
  CASE mode = "layout" -> neighbour
    [] mode = "zero" -> "NULL"
    [] OTHER -> "WILD"

Table0(op, mode) ==
  IF op % 16 < TABLE0_SIZE THEN table0(op % 16) ELSE WildSlot(table8(0), mode)

Table8(op, mode) ==
  IF op % 16 < TABLE8_SIZE THEN table8(op % 16) ELSE WildSlot(tableE(0), mode)

TableE(op, mode) ==
  IF op % 16 < TABLEE_SIZE THEN tableE(op % 16) ELSE WildSlot(tableF(0), mode)

TableF(op, mode) ==
  IF op % 256 < TABLEF_SIZE THEN tableF(op % 256) ELSE WildSlot("WILD", mode)

(* the second-level index of op lies inside its table *)
SlotInBounds(op) ==
  CASE OpFamily(op) = 0 -> op % 16 < TABLE0_SIZE
    [] OpFamily(op) = 8 -> op % 16 < TABLE8_SIZE
    [] OpFamily(op) = 14 -> op % 16 < TABLEE_SIZE
    [] OpFamily(op) = 15 -> op % 256 < TABLEF_SIZE
    [] OTHER -> TRUE

(* the handler the tables select for op *)
Decode(op, mode) ==
  LET h == table(OpFamily(op))
  IN  CASE h = "Table0" -> Table0(op, mode)
        [] h = "Table8" -> Table8(op, mode)
        [] h = "TableE" -> TableE(op, mode)
        [] h = "TableF" -> TableF(op, mode)
        [] OTHER -> h

Apply(h, s, mode, rnd) ==
  CASE h = "OP_00E0" -> OP_00E0(s)
    [] h = "OP_00EE" -> OP_00EE(s, mode)
    [] h = "OP_1nnn" -> OP_1nnn(s)
    [] h = "OP_2nnn" -> OP_2nnn(s, mode)
    [] h = "OP_3xkk" -> OP_3xkk(s)
    [] h = "OP_4xkk" -> OP_4xkk(s)
    [] h = "OP_5xy0" -> OP_5xy0(s)
    [] h = "OP_6xkk" -> OP_6xkk(s)
    [] h = "OP_7xkk" -> OP_7xkk(s)
    [] h = "OP_8xy0" -> OP_8xy0(s)
    [] h = "OP_8xy1" -> OP_8xy1(s)
    [] h = "OP_8xy2" -> OP_8xy2(s)
    [] h = "OP_8xy3" -> OP_8xy3(s)
    [] h = "OP_8xy4" -> OP_8xy4(s)
    [] h = "OP_8xy5" -> OP_8xy5(s)
    [] h = "OP_8xy6" -> OP_8xy6(s)
    [] h = "OP_8xy7" -> OP_8xy7(s)
    [] h = "OP_8xyE" -> OP_8xyE(s)
    [] h = "OP_9xy0" -> OP_9xy0(s)
    [] h = "OP_Annn" -> OP_Annn(s)
    [] h = "OP_Bnnn" -> OP_Bnnn(s)
    [] h = "OP_Cxkk" -> OP_Cxkk(s, rnd)
    [] h = "OP_Dxyn" -> OP_Dxyn(s, mode)
    [] h = "OP_Ex9E" -> OP_Ex9E(s, mode)
    [] h = "OP_ExA1" -> OP_ExA1(s, mode)
    [] h = "OP_Fx07" -> OP_Fx07(s)
    [] h = "OP_Fx0A" -> OP_Fx0A(s)
    [] h = "OP_Fx15" -> OP_Fx15(s)
    [] h = "OP_Fx18" -> OP_Fx18(s)
    [] h = "OP_Fx1E" -> OP_Fx1E(s)
    [] h = "OP_Fx29" -> OP_Fx29(s)
    [] h = "OP_Fx33" -> OP_Fx33(s, mode)
    [] h = "OP_Fx55" -> OP_Fx55(s, mode)
    [] h = "OP_Fx65" -> OP_Fx65(s, mode)
    [] h = "WILD" -> [s EXCEPT !.halted = TRUE]
    [] OTHER -> s

(* the instruction word at s.pc *)
Fetch(s, mode) ==
  ReadMem(s, s.pc, mode) * 256 + ReadMem(s, s.pc + 1, mode)

(* one call of Chip8::Cycle: fetch, advance pc, decode, execute *)
CycleOf(s, mode, rnd) ==
  LET op == Fetch(s, mode)
      s1 == [s EXCEPT !.opcode = op, !.pc = U16(@ + 2),
                      !.ub = (s.pc + 1 >= MEMORY_SIZE) \/ ~SlotInBounds(op)]
  IN  Apply(Decode(op, mode), s1, mode, rnd)

(***************************************************************************)
(* Programs.  A ROM is the byte sequence loadROM copies to START_ADDRESS.  *)
(***************************************************************************)
W(w) == <<w \div 256, w % 256>>

I6(x, kk) == W(24576 + x * 256 + kk)
I8(x, y, k) == W(32768 + x * 256 + y * 16 + k)

ArithRegs == {<<0, 1>>, <<1, 0>>, <<3, 15>>, <<15, 3>>, <<2, 2>>, <<15, 15>>}
ArithVals == {0, 1, 100, 156, 255}

ArithROMs ==
  { I6(r[1], a) \o I6(r[2], b) \o I8(r[1], r[2], k) :
      r \in ArithRegs, a \in ArithVals, b \in ArithVals, k \in {4, 5} }

(* the ROM of len bytes that holds the words of f at their addresses *)
RomOf(f, len) ==
  [i \in 1..len |->
     LET a == START_ADDRESS + i - 1
         wa == a - (a % 2)
     IN  IF wa \in DOMAIN f
         THEN (IF a % 2 = 0 THEN f[wa] \div 256 ELSE f[wa] % 256)
         ELSE 0]

RomLen == 2 * 16

(* a call at callsite (reached by a jump when it is not the first word)   *)
(* to target, where a return is the first instruction                     *)
CallSites == {512, 518, 522}
CallTargets == {516, 524, 542}

CallROMs ==
  { RomOf((target :> 238) @@ (callsite :> (8192 + target)) @@ (512 :> (4096 + callsite)),
          RomLen) :
      callsite \in CallSites, target \in CallTargets }

(* two register loads and one skip instruction *)
SkipRegs == {<<0, 1>>, <<2, 2>>, <<5, 15>>}
SkipVals == {0, 3, 16}

SkipWords(x, y, kk) ==
  { 12288 + x * 256 + kk, 16384 + x * 256 + kk,
    20480 + x * 256 + y * 16, 36864 + x * 256 + y * 16,
    57344 + x * 256 + 158, 57344 + x * 256 + 161 }

SkipROMs ==
  UNION { { I6(r[1], a) \o I6(r[2], b) \o W(w) : w \in SkipWords(r[1], r[2], b) } :
            r \in SkipRegs, a \in SkipVals, b \in SkipVals }

(* a key wait followed by a register load *)
WaitROMs ==
  { W(61450 + x * 256) \o I6(1, 7) : x \in {0, 5, 15} }

IA(nnn) == W(40960 + nnn)

(* two register loads, an index load and a BCD store *)
BcdVals == {0, 7, 57, 100, 157, 255}
BcdAddrs == {768, 4000, 4094}

BcdROMs ==
  { I6(x, v) \o IA(a) \o W(61491 + x * 256) :
      x \in {0, 4}, v \in BcdVals, a \in BcdAddrs }

(* register loads, an index load, the same draw three times and a clear;  *)
(* the ROM carries sprite rows 00 81 FF 00 at SpriteData                   *)
SpriteData == START_ADDRESS + 32
DrawRegs == {<<0, 1>>, <<15, 1>>}
DrawXs == {0, 28, 40}
DrawYs == {0, 33, 63}
DrawNs == {0, 1, 2, 5}

DrawROM(x, y, vx, vy, a, n) ==
  LET d == 53248 + x * 256 + y * 16 + n
  IN  RomOf((512 :> (24576 + x * 256 + vx)) @@ (514 :> (24576 + y * 256 + vy))
            @@ (516 :> (40960 + a)) @@ (518 :> d) @@ (520 :> d) @@ (522 :> d)
            @@ (524 :> 224) @@ (SpriteData :> 129) @@ (SpriteData + 2 :> 65280),
            SpriteData + 4 - START_ADDRESS)

DrawROMs ==
  { DrawROM(r[1], r[2], vx, vy, a, n) :
      r \in DrawRegs, vx \in DrawXs, vy \in DrawYs,
      a \in {FONTSET_START_ADDRESS, SpriteData}, n \in DrawNs }

(* a register load and one word that is none of the 35 instructions *)
OddWords ==
  { 1, 15, 225, 20497, 20481, 32776, 32783, 36865, 57344, 57359, 57502,
    61440, 61542, 61695, 61696 }

OddROMs ==
  { I6(1, v) \o W(w) : v \in {0, 5}, w \in OddWords }

KeySnapshots ==
  { [k \in 0..(NUM_KEYS - 1) |-> IF k \in down THEN 1 ELSE 0] :
      down \in {{}, {3}, {0, 15}, {3, 9}} }

RandBytes == {0, 165, 255}

(* a register load and Fx29 *)
FontRegs == {0, 7, 15}
FontVals == {0, 9, 15, 16, 255}

FontROMs ==
  { I6(x, v) \o W(61481 + x * 256) : x \in FontRegs, v \in FontVals }

(* a register load, then Fx15, Fx18 and Fy07 *)
TimerRegs == {<<1, 2>>, <<15, 0>>, <<3, 3>>}
TimerVals == {0, 5, 255}

TimerROMs ==
  { I6(r[1], v) \o W(61461 + r[1] * 256) \o W(61464 + r[1] * 256)
      \o W(61447 + r[2] * 256) : r \in TimerRegs, v \in TimerVals }

(* 6024 AFFF F01E 6105 F115 F033: Fx33 with index = 4095 + 36            *)
(* 6022 A00E F155 6205 F215 100E: a 2200 stored at address 14 and run    *)
(* 6008 6101 AFFF F11E F033:      Fx33 with index = 4095 + 1             *)
ClobberROMs ==
  { I6(0, 36) \o IA(4095) \o W(61470) \o I6(1, 5) \o W(61717) \o W(61491),
    I6(0, 34) \o IA(14) \o W(61781) \o I6(2, 5) \o W(61973) \o W(4110),
    I6(0, 8) \o I6(1, 1) \o IA(4095) \o W(61726) \o W(61491) }

(* two register loads, an index load, Fx55 and Fx65; an index load and Fx65 *)
StoreRegs == {0, 1, 15}
StoreAddrs == {768, 4094}

StoreROMs ==
  { I6(0, 7) \o I6(1, 200) \o IA(a) \o W(61525 + x * 256) \o W(61541 + x * 256) :
      x \in StoreRegs, a \in StoreAddrs }
  \cup { I6(1, 9) \o IA(FONTSET_START_ADDRESS) \o W(61541 + x * 256) : x \in StoreRegs }

(* one word of every instruction that does not transfer control, with    *)
(* operands in registers 0 and 1                                          *)
TourWords ==
  {
    224, 12293, 16389, 20496, 24837, 28677, 32784, 32785, 32786, 32787,
    32788, 32789, 32790, 32791, 32798, 36880, 41251, 49167, 53265, 57502,
    57505, 61447, 61461, 61464, 61470, 61481, 61491, 61525, 61541, 61450}

(* 1202, 2202, B202 and 00EE: at address 0x202 the first three name their *)
(* own address when register 0 holds 0                                    *)
TransferWords == {4610, 8706, 45570, 238}

TourROMs ==
  { I6(0, v) \o W(w) : v \in {0, 5}, w \in TourWords \cup TransferWords }

(* five words, each either a call of the word after it or a return *)
CallOrReturn(c, i) ==
  IF c[i] THEN 8192 + START_ADDRESS + 2 * i + 2 ELSE 238

StackROMs ==
  { W(CallOrReturn(c, 0)) \o W(CallOrReturn(c, 1)) \o W(CallOrReturn(c, 2))
      \o W(CallOrReturn(c, 3)) \o W(CallOrReturn(c, 4)) :
      c \in [0..4 -> BOOLEAN] }

(***************************************************************************)
(* The state machine.                                                      *)
(***************************************************************************)
M ==
  [registers |-> registers, memory |-> memory, index |-> index, pc |-> pc,
   stack |-> stack, sp |-> sp, delayTimer |-> delayTimer,
   soundTimer |-> soundTimer, keypad |-> keypad, video |-> video,
   opcode |-> opcode, ub |-> ub, halted |-> halted]

Becomes(t) ==
  /\ registers' = t.registers
  /\ memory' = t.memory
  /\ index' = t.index
  /\ pc' = t.pc
  /\ stack' = t.stack
  /\ sp' = t.sp
  /\ delayTimer' = t.delayTimer
  /\ soundTimer' = t.soundTimer
  /\ keypad' = t.keypad
  /\ video' = t.video
  /\ opcode' = t.opcode
  /\ ub' = t.ub
  /\ halted' = t.halted

(* the object the constructor leaves; opcode has no initialiser and is     *)
(* assigned by Cycle before anything reads it                              *)
Chip8 ==
  [registers |-> [i \in 0..(NUM_REGISTERS - 1) |-> 0],
   memory |-> [a \in 0..(MEMORY_SIZE - 1) |->
                 IF a >= FONTSET_START_ADDRESS /\ a < FONTSET_START_ADDRESS + FONTSET_SIZE
                 THEN fontset[a - FONTSET_START_ADDRESS + 1] ELSE 0],
   index |-> 0,
   pc |-> START_ADDRESS,
   stack |-> [i \in 0..(STACK_SIZE - 1) |-> 0],
   sp |-> 0,
   delayTimer |-> 0,
   soundTimer |-> 0,
   keypad |-> [k \in 0..(NUM_KEYS - 1) |-> 0],
   video |-> [i \in 0..(VIDEO_SIZE - 1) |-> PIXEL_OFF],
   opcode |-> 0,
   ub |-> FALSE,
   halted |-> FALSE]

Init ==
  /\ registers = Chip8.registers
  /\ memory = Chip8.memory
  /\ index = Chip8.index
  /\ pc = Chip8.pc
  /\ stack = Chip8.stack
  /\ sp = Chip8.sp
  /\ delayTimer = Chip8.delayTimer
  /\ soundTimer = Chip8.soundTimer
  /\ keypad = Chip8.keypad
  /\ video = Chip8.video
  /\ opcode = Chip8.opcode
  /\ ub = Chip8.ub
  /\ halted = Chip8.halted
  /\ loaded = FALSE
  /\ cycles = 0
  /\ keyEvents = 0
  /\ prev = Chip8
  /\ prev2 = Chip8

(* Chip8::loadROM with a file that holds the bytes of rom *)
loadROM(rom) ==
  /\ ~loaded
  /\ cycles = 0
  /\ START_ADDRESS + Len(rom) <= MEMORY_SIZE
  /\ memory' = [a \in 0..(MEMORY_SIZE - 1) |->
                  IF a >= START_ADDRESS /\ a < START_ADDRESS + Len(rom)
                  THEN rom[a - START_ADDRESS + 1] ELSE memory[a]]
  /\ loaded' = TRUE
  /\ UNCHANGED <<registers, index, pc, stack, sp, delayTimer, soundTimer,
                 keypad, video, opcode, ub, halted, cycles, keyEvents, prev, prev2>>

(* the modes that can tell outcomes apart: all of them agree up to the    *)
(* first access outside an array                                          *)
CycleModes(s) ==
  IF CycleOf(s, "layout", 0).ub THEN UBModes ELSE {"layout"}

(* the bytes the random generator can return to the instruction at s.pc   *)
CycleRands(s) ==
  IF s.pc < MEMORY_SIZE /\ s.memory[s.pc] \div 16 = 12 THEN RandBytes ELSE {0}

(* Chip8::Cycle *)
Cycle ==
  /\ cycles < MaxCycles
  /\ ~halted
  /\ \E mode \in CycleModes(M), rnd \in CycleRands(M) : Becomes(CycleOf(M, mode, rnd))
  /\ prev' = M
  /\ prev2' = prev
  /\ cycles' = cycles + 1
  /\ UNCHANGED <<loaded, keyEvents>>

(* IdleStride more cycles from pc fetch inside memory *)
StrideFits == pc + 2 * IdleStride <= MEMORY_SIZE

(* n consecutive calls of Chip8::Cycle from r.cur, with no input between  *)
(* them, cut short by a cycle that leaves an array or ends the run; r.prev *)
(* and r.prev2 follow the run as prev and prev2 follow Cycle               *)
RECURSIVE RunOf(_, _, _)
RunOf(r, n, mode) ==
  IF n = 0 \/ r.cur.halted \/ (r.done > 0 /\ r.cur.ub) THEN r
  ELSE LET t == CycleOf(r.cur, mode, 0)
       IN  (* the test makes TLC evaluate t before it goes on *)
           IF t.ub \in BOOLEAN
           THEN RunOf([prev2 |-> r.prev, prev |-> r.cur, cur |-> t,
                       done |-> r.done + 1], n - 1, mode)
           ELSE r

(* the main loop calling Chip8::Cycle IdleStride times on a machine that   *)
(* was given no ROM: memory holds the font and zeros                       *)
IdleRun ==
  /\ ~loaded
  /\ ~halted
  /\ StrideFits
  /\ cycles + IdleStride <= MaxIdleCycles
  /\ \E mode \in UBModes :
       LET r == RunOf([prev2 |-> prev2, prev |-> prev, cur |-> M, done |-> 0],
                      IdleStride, mode)
       IN  /\ Becomes(r.cur)
           /\ prev' = r.prev
           /\ prev2' = r.prev2
           /\ cycles' = cycles + r.done
  /\ UNCHANGED <<loaded, keyEvents>>

(* Chip8::Cycle on that machine once pc is near the end of memory *)
IdleCycle ==
  /\ ~loaded
  /\ ~halted
  /\ ~StrideFits
  /\ cycles < MaxIdleCycles
  /\ \E mode \in CycleModes(M), rnd \in CycleRands(M) : Becomes(CycleOf(M, mode, rnd))
  /\ prev' = M
  /\ prev2' = prev
  /\ cycles' = cycles + 1
  /\ UNCHANGED <<loaded, keyEvents>>

(* Platform::ProcessInput writing the keypad between two cycles *)
ProcessInput ==
  /\ keyEvents < MaxKeyEvents
  /\ \E keys \in KeySnapshots :
       /\ keys # keypad
       /\ keypad' = keys
  /\ keyEvents' = keyEvents + 1
  /\ UNCHANGED <<registers, memory, index, pc, stack, sp, delayTimer, soundTimer,
                 video, opcode, ub, halted, loaded, cycles, prev, prev2>>

Boot(roms) == \E rom \in roms : loadROM(rom)

NextArith ==
  \/ Boot(ArithROMs)
  \/ Cycle

SpecArith == Init /\ [][NextArith]_vars

NextFlow ==
  \/ Boot(CallROMs \cup SkipROMs \cup WaitROMs)
  \/ Cycle
  \/ ProcessInput

SpecFlow == Init /\ [][NextFlow]_vars

NextMem ==
  \/ Boot(BcdROMs)
  \/ Cycle

SpecMem == Init /\ [][NextMem]_vars

NextDraw ==
  \/ Boot(DrawROMs)
  \/ Cycle

SpecDraw == Init /\ [][NextDraw]_vars

NextDecode ==
  \/ Boot(OddROMs)
  \/ Cycle

SpecDecode == Init /\ [][NextDecode]_vars

NextMisc ==
  \/ Boot(FontROMs \cup TimerROMs \cup ClobberROMs \cup StoreROMs \cup TourROMs)
  \/ Cycle

SpecMisc == Init /\ [][NextMisc]_vars

NextIdle ==
  \/ IdleRun
  \/ IdleCycle

SpecIdle == Init /\ [][NextIdle]_vars

NextStack ==
  \/ Boot(StackROMs)
  \/ Cycle

SpecStack == Init /\ [][NextStack]_vars

(***************************************************************************)
(* Properties.  prev is the machine as the last cycle found it, prev2 as   *)
(* the cycle before that found it.                                         *)
(***************************************************************************)
(* a cycle that starts in s fetches its word in bounds and runs handler h *)
RunsAt(s, h) ==
  /\ s.pc + 1 < MEMORY_SIZE
  /\ SlotInBounds(Fetch(s, "layout"))
  /\ Decode(Fetch(s, "layout"), "layout") = h

(* the last cycle ran the handler named h *)
Ran(h) == cycles >= 1 /\ RunsAt(prev, h)

(* the word the last cycle fetched *)
Word == Fetch(prev, "layout")

(* C1 as stated: 8xy4 leaves register[x] = (a+b) mod 256 and register[15] = 1
   exactly when a+b > 255, for all x, y in 0..15 *)
C1_AsStated ==
  Ran("OP_8xy4") =>
    LET a == prev.registers[OpVx(Word)]
        b == prev.registers[OpVy(Word)]
    IN  /\ registers[OpVx(Word)] = (a + b) % 256
        /\ registers[15] = (IF a + b > 255 THEN 1 ELSE 0)

(* C1 amended: for x in 0..14, 8xy4 leaves register[x] = (a+b) mod 256 and
   register[15] = 1 exactly when a+b > 255; for x = 15 the sum is stored
   after the carry and register[15] ends as (a+b) mod 256 *)
C1_Add ==
  Ran("OP_8xy4") =>
    LET a == prev.registers[OpVx(Word)]
        b == prev.registers[OpVy(Word)]
    IN  /\ registers[OpVx(Word)] = (a + b) % 256
        /\ OpVx(Word) # 15 => registers[15] = (IF a + b > 255 THEN 1 ELSE 0)

C1_Witness ==
  /\ Ran("OP_8xy4")
  /\ OpVx(Word) = 3 /\ OpVy(Word) = 15
  /\ prev.registers[3] = 100 /\ prev.registers[15] = 156
  /\ registers[3] = 0 /\ registers[15] = 1

(* C2: 8xy5 leaves register[15] = 1 exactly when a > b, and
   register[x] = (a-b) mod 256, for all x, y in 0..15 *)
C2_Sub ==
  Ran("OP_8xy5") =>
    LET a == prev.registers[OpVx(Word)]
        b == prev.registers[OpVy(Word)]
    IN  /\ registers[15] = (IF a > b THEN 1 ELSE 0)
        /\ registers[OpVx(Word)] = (a - b) % 256

(* what 8xy5 does hold to when neither operand is register 15 *)
C2_SubBelowF ==
  (Ran("OP_8xy5") /\ OpVx(Word) # 15 /\ OpVy(Word) # 15) =>
    LET a == prev.registers[OpVx(Word)]
        b == prev.registers[OpVy(Word)]
    IN  /\ registers[15] = (IF a > b THEN 1 ELSE 0)
        /\ registers[OpVx(Word)] = (a - b) % 256

(* the borrow flag is subtracted in place of register[15] *)
C2_FlagSubtracted ==
  /\ Ran("OP_8xy5")
  /\ OpVx(Word) = 3 /\ OpVy(Word) = 15
  /\ prev.registers[3] = 100 /\ prev.registers[15] = 156
  /\ registers[3] = 100 /\ registers[15] = 0

(* C3: a 2nnn followed at once by 00EE (the first instruction at nnn) brings
   pc back to the address right after the 2nnn *)
C3_CallReturn ==
  (cycles >= 2 /\ RunsAt(prev2, "OP_2nnn") /\ RunsAt(prev, "OP_00EE")) =>
    pc = prev2.pc + 2

(* the return reads the slot the call never wrote *)
C3_ReturnsToStaleSlot ==
  /\ cycles >= 2 /\ RunsAt(prev2, "OP_2nnn") /\ RunsAt(prev, "OP_00EE")
  /\ prev2.pc = 512 /\ prev.pc = 516
  /\ pc = 0

(* the condition of the skip instruction the last cycle ran, for a key
   register that names one of the 16 keys *)
SkipTaken ==
  LET x == prev.registers[OpVx(Word)]
      y == prev.registers[OpVy(Word)]
  IN  CASE Ran("OP_3xkk") -> x = OpKK(Word)
        [] Ran("OP_4xkk") -> x # OpKK(Word)
        [] Ran("OP_5xy0") -> x = y
        [] Ran("OP_9xy0") -> x # y
        [] Ran("OP_Ex9E") -> prev.keypad[x] # 0
        [] Ran("OP_ExA1") -> prev.keypad[x] = 0
        [] OTHER -> FALSE

RanSkip ==
  \/ Ran("OP_3xkk") \/ Ran("OP_4xkk") \/ Ran("OP_5xy0") \/ Ran("OP_9xy0")
  \/ Ran("OP_Ex9E") \/ Ran("OP_ExA1")

RanKeySkip == Ran("OP_Ex9E") \/ Ran("OP_ExA1")

(* C4: a cycle on a skip opcode moves pc by 4 when the condition of the
   opcode holds and by 2 when it does not, and changes no register, memory
   cell, stack slot or framebuffer cell (a key register above 15 names no
   key: the move is then one of the two) *)
C4_Skip ==
  RanSkip =>
    /\ IF RanKeySkip /\ prev.registers[OpVx(Word)] >= NUM_KEYS
       THEN pc \in {U16(prev.pc + 2), U16(prev.pc + 4)}
       ELSE pc = U16(prev.pc + (IF SkipTaken THEN 4 ELSE 2))
    /\ registers = prev.registers
    /\ memory = prev.memory
    /\ stack = prev.stack
    /\ video = prev.video

C4_Witness ==
  /\ Ran("OP_4xkk")
  /\ prev.registers[OpVx(Word)] = 3 /\ OpKK(Word) = 16
  /\ pc = prev.pc + 4

(* C5: while no key is down a cycle on Fx0A leaves pc on the Fx0A and the
   registers as they are; the cycle that finds a key down stores the index
   of a key that is down in register[x] and leaves pc 2 past the Fx0A *)
C5_KeyWait ==
  Ran("OP_Fx0A") =>
    IF \A k \in 0..(NUM_KEYS - 1) : prev.keypad[k] = 0
    THEN pc = prev.pc /\ registers = prev.registers
    ELSE /\ registers[OpVx(Word)] \in 0..(NUM_KEYS - 1)
         /\ prev.keypad[registers[OpVx(Word)]] # 0
         /\ pc = prev.pc + 2

C5_Witness ==
  /\ cycles >= 2 /\ Ran("OP_Fx0A") /\ RunsAt(prev2, "OP_Fx0A")
  /\ prev2.pc = prev.pc
  /\ \A k \in 0..(NUM_KEYS - 1) : prev2.keypad[k] = 0
  /\ prev.keypad[3] # 0
  /\ OpVx(Word) = 5 /\ registers[5] = 3
  /\ pc = prev.pc + 2

(* C6: Fx33 stores the hundreds digit of register[x] at memory[index], the
   tens digit at memory[index+1] and the ones digit at memory[index+2] *)
C6_Bcd ==
  (Ran("OP_Fx33") /\ prev.index + 2 < MEMORY_SIZE) =>
    LET v == prev.registers[OpVx(Word)]
    IN  /\ memory[prev.index] = v \div 100
        /\ memory[prev.index + 1] = (v \div 10) % 10
        /\ memory[prev.index + 2] = v % 10

(* 157 is stored as 5, 5, 7 *)
C6_TensStoredTwice ==
  /\ Ran("OP_Fx33") /\ prev.index = 768
  /\ prev.registers[OpVx(Word)] = 157
  /\ memory[768] = 5 /\ memory[769] = 5 /\ memory[770] = 7

(* the cells of the framebuffer that differ between s and t *)
Changed(s, t) == {i \in 0..(VIDEO_SIZE - 1) : s.video[i] # t.video[i]}

(* the set sprite bits (row, column) of a draw that starts in s *)
SpriteBits(s) ==
  {rc \in (0..(OpN(Fetch(s, "layout")) - 1)) \X (0..7) :
     s.index + rc[1] < MEMORY_SIZE
     /\ BitAnd(s.memory[s.index + rc[1]], 2 ^ (7 - rc[2]), 8) # 0}

(* the last two cycles ran the same draw on the same sprite bytes at the
   same position *)
DrewTwice ==
  /\ cycles >= 2
  /\ RunsAt(prev2, "OP_Dxyn") /\ RunsAt(prev, "OP_Dxyn")
  /\ Fetch(prev2, "layout") = Fetch(prev, "layout")
  /\ prev2.index = prev.index
  /\ \A r \in 0..15 : ReadMem(prev2, prev2.index + r, "layout")
                        = ReadMem(prev, prev.index + r, "layout")
  /\ prev2.registers[OpVx(Word)] = prev.registers[OpVx(Word)]
  /\ prev2.registers[OpVy(Word)] = prev.registers[OpVy(Word)]

(* C7: drawing the same sprite twice at the same position restores the
   framebuffer, and the second draw sets register[15] = 1 exactly when the
   first draw turned at least one pixel on *)
C7_DrawTwice ==
  DrewTwice =>
    /\ video = prev2.video
    /\ registers[15] =
         (IF \E i \in 0..(VIDEO_SIZE - 1) :
                prev2.video[i] # PIXEL_ON /\ prev.video[i] = PIXEL_ON
          THEN 1 ELSE 0)

(* what holds of two draws that stay inside the framebuffer *)
C7_DrawTwiceInside ==
  (DrewTwice /\ ~prev.ub /\ ~ub) =>
    /\ video = prev2.video
    /\ registers[15] =
         (IF \E i \in 0..(VIDEO_SIZE - 1) :
                prev2.video[i] # PIXEL_ON /\ prev.video[i] = PIXEL_ON
          THEN 1 ELSE 0)

(* a second draw that reports a collision outside the framebuffer *)
C7_CollisionOutside ==
  /\ DrewTwice /\ ub
  /\ video = prev2.video /\ prev.video = prev2.video
  /\ registers[15] = 1

(* C8: 00E0 after any draws leaves all 64x32 cells 0 and changes nothing
   but the framebuffer (pc is past the instruction) *)
C8_Clear ==
  Ran("OP_00E0") =>
    /\ \A i \in 0..(VIDEO_SIZE - 1) : video[i] = PIXEL_OFF
    /\ pc = prev.pc + 2
    /\ registers = prev.registers
    /\ memory = prev.memory
    /\ index = prev.index
    /\ stack = prev.stack
    /\ sp = prev.sp
    /\ delayTimer = prev.delayTimer
    /\ soundTimer = prev.soundTimer
    /\ keypad = prev.keypad

C8_Witness ==
  /\ Ran("OP_00E0") /\ Word = 224
  /\ cycles >= 2 /\ RunsAt(prev2, "OP_Dxyn")
  /\ \E i \in (VIDEO_SIZE \div 2)..(VIDEO_SIZE - 1) : prev.video[i] = PIXEL_ON
  /\ \A i \in 0..(VIDEO_SIZE - 1) : video[i] = PIXEL_OFF

(* C9: Dxyn puts sprite bit (row r, column c) at column (register[x] mod 64)
   + c and row (register[y] mod 32) + r of a framebuffer 64 cells wide *)
C9_Placement ==
  Ran("OP_Dxyn") =>
    Changed(prev, M) =
      { i \in { ((prev.registers[OpVx(Word)] % 64) + rc[2])
                + ((prev.registers[OpVy(Word)] % 32) + rc[1]) * 64 :
                rc \in SpriteBits(prev) } : i < VIDEO_SIZE }

(* where the code does put the bits *)
C9_PlacementOfCode ==
  Ran("OP_Dxyn") =>
    Changed(prev, M) =
      { i \in { ((prev.registers[OpVx(Word)] % VIDEO_WIDTH) + rc[2])
                + ((prev.registers[OpVy(Word)] % VIDEO_HEIGHT) + rc[1]) * VIDEO_WIDTH :
                rc \in SpriteBits(prev) } : i < VIDEO_SIZE }

(* register[x] = 40 draws at column 8 *)
C9_ColumnFolded ==
  /\ Ran("OP_Dxyn")
  /\ prev.registers[OpVx(Word)] = 40 /\ prev.registers[OpVy(Word)] = 0
  /\ prev.video[8] = PIXEL_OFF /\ video[8] = PIXEL_ON
  /\ video[40] = PIXEL_OFF

(* op is one of the 35 instructions *)
IsInstruction(op) ==
  LET f == OpFamily(op)
  IN  CASE f = 0 -> op \in {224, 238}
        [] f \in {5, 9} -> op % 16 = 0
        [] f = 8 -> op % 16 \in {0, 1, 2, 3, 4, 5, 6, 7, 14}
        [] f = 14 -> op % 256 \in {158, 161}
        [] f = 15 -> op % 256 \in {7, 10, 21, 24, 30, 41, 51, 85, 101}
        [] OTHER -> TRUE

(* C10: a cycle on a word that is none of the 35 instructions moves pc by 2,
   changes nothing else and calls through no unbound or out-of-table slot *)
C10_NoOp ==
  (cycles >= 1 /\ prev.pc + 1 < MEMORY_SIZE /\ ~IsInstruction(Word)) =>
    /\ pc = prev.pc + 2
    /\ registers = prev.registers
    /\ memory = prev.memory
    /\ index = prev.index
    /\ stack = prev.stack
    /\ sp = prev.sp
    /\ delayTimer = prev.delayTimer
    /\ soundTimer = prev.soundTimer
    /\ video = prev.video
    /\ ~ub
    /\ ~halted

(* what holds of the words whose slot lies in its table and is unbound *)
C10_UnboundSlot ==
  (cycles >= 1 /\ prev.pc + 1 < MEMORY_SIZE /\ SlotInBounds(Word)
     /\ Decode(Word, "layout") = "NULL") =>
    /\ pc = prev.pc + 2
    /\ registers = prev.registers
    /\ memory = prev.memory
    /\ index = prev.index
    /\ stack = prev.stack
    /\ sp = prev.sp
    /\ delayTimer = prev.delayTimer
    /\ soundTimer = prev.soundTimer
    /\ video = prev.video
    /\ ~ub
    /\ ~halted

(* F0FF indexes tableF past its end *)
C10_PastTheTable ==
  /\ cycles >= 1 /\ prev.pc + 1 < MEMORY_SIZE
  /\ Word = 61695
  /\ ub /\ halted

(* C11: in every reachable state the call-stack depth held in sp is within
   0..16 *)
C11_Depth == sp \in 0..STACK_SIZE

(* a return taken at depth 0 leaves sp = 255 *)
C11_ReturnAtDepthZero ==
  /\ Ran("OP_00EE")
  /\ prev.sp = 0
  /\ sp = 255

(* C15: 2nnn writes the advanced pc into the stack slot indexed by the sp of
   before, leaves every other slot as it was, adds 1 to sp and sets pc to nnn *)
C15_Push ==
  (Ran("OP_2nnn") /\ prev.sp < STACK_SIZE) =>
    /\ stack = [prev.stack EXCEPT ![prev.sp] = U16(prev.pc + 2)]
    /\ sp = prev.sp + 1
    /\ pc = OpNNN(Word)

(* a call that leaves all 16 stack slots as they were *)
C15_NoSlotWritten ==
  /\ Ran("OP_2nnn")
  /\ stack = prev.stack
  /\ sp = prev.sp + 1
  /\ pc = OpNNN(Word)

(* C17: every framebuffer cell holds 0 or 0xFFFFFFFF, and a cycle changes
   cells only when it runs Dxyn or 00E0 *)
C17_Cells ==
  /\ \A i \in 0..(VIDEO_SIZE - 1) : video[i] \in {PIXEL_OFF, PIXEL_ON}
  /\ (cycles >= 1 /\ video # prev.video) => (Ran("OP_Dxyn") \/ Ran("OP_00E0"))

(* a call whose return-address store lands in a framebuffer cell *)
C17_CallWritesCell ==
  /\ Ran("OP_2nnn")
  /\ \E i \in 0..(VIDEO_SIZE - 1) : video[i] \notin {PIXEL_OFF, PIXEL_ON}

(* C12: for every 8-bit register[x], Fx29 sets index to
   0x50 + 5 * (register[x] mod 16), so index is the first byte of one of the
   16 glyphs and lies within 0x50..0x9B *)
C12_Font ==
  Ran("OP_Fx29") =>
    /\ index = FONTSET_START_ADDRESS + 5 * (prev.registers[OpVx(Word)] % 16)
    /\ index >= FONTSET_START_ADDRESS
    /\ index <= FONTSET_START_ADDRESS + FONTSET_SIZE - 5

(* Fx29 with register[x] >= 16 sets index past the last glyph *)
C12_DigitNotMasked ==
  /\ Ran("OP_Fx29")
  /\ prev.registers[OpVx(Word)] >= 16
  /\ index = FONTSET_START_ADDRESS + 5 * prev.registers[OpVx(Word)]
  /\ index > FONTSET_START_ADDRESS + FONTSET_SIZE - 5

(* for register[x] in 0..15 Fx29 sets index to the glyph of that digit *)
C12_FontOfDigit ==
  (Ran("OP_Fx29") /\ prev.registers[OpVx(Word)] < 16) =>
    index = FONTSET_START_ADDRESS + 5 * prev.registers[OpVx(Word)]

(* C13: over any cycle the delay timer changes only when Fx15 runs (to
   register[x]) and the sound timer only when Fx18 runs (to register[x]);
   every other instruction leaves both timers as they were *)
C13_Timers ==
  cycles >= 1 =>
    /\ delayTimer = (IF Ran("OP_Fx15") THEN prev.registers[OpVx(Word)]
                     ELSE prev.delayTimer)
    /\ soundTimer = (IF Ran("OP_Fx18") THEN prev.registers[OpVx(Word)]
                     ELSE prev.soundTimer)

(* a cycle that ran neither Fx15 nor Fx18 and left a timer changed *)
C13_TimerOverwritten ==
  /\ cycles >= 1
  /\ ~Ran("OP_Fx15") /\ ~Ran("OP_Fx18")
  /\ (delayTimer # prev.delayTimer \/ soundTimer # prev.soundTimer)

(* in a cycle that makes no access outside an array the timers change as
   C13 says *)
C13_TimersInside ==
  (cycles >= 1 /\ ~ub) =>
    /\ delayTimer = (IF Ran("OP_Fx15") THEN prev.registers[OpVx(Word)]
                     ELSE prev.delayTimer)
    /\ soundTimer = (IF Ran("OP_Fx18") THEN prev.registers[OpVx(Word)]
                     ELSE prev.soundTimer)

(* C14: Fx55 stores register[i] at memory[index+i] for every i in 0..x and
   changes no other memory cell; Fx65 loads register[i] from memory[index+i]
   for every i in 0..x and changes no register above x; Fx55 followed by
   Fx65 with the same x and index leaves registers 0..x as they were *)
C14_StoreLoad ==
  /\ (Ran("OP_Fx55") /\ prev.index + OpVx(Word) < MEMORY_SIZE) =>
       memory = [a \in 0..(MEMORY_SIZE - 1) |->
                   IF a >= prev.index /\ a <= prev.index + OpVx(Word)
                   THEN prev.registers[a - prev.index] ELSE prev.memory[a]]
  /\ (Ran("OP_Fx65") /\ prev.index + OpVx(Word) < MEMORY_SIZE) =>
       registers = [i \in 0..(NUM_REGISTERS - 1) |->
                      IF i <= OpVx(Word) THEN prev.memory[prev.index + i]
                      ELSE prev.registers[i]]
  /\ (/\ cycles >= 2
      /\ RunsAt(prev2, "OP_Fx55")
      /\ Ran("OP_Fx65")
      /\ OpVx(Fetch(prev2, "layout")) = OpVx(Word)
      /\ prev2.index = prev.index
      /\ prev.index + OpVx(Word) < MEMORY_SIZE) =>
       \A i \in 0..OpVx(Word) : registers[i] = prev2.registers[i]

(* registers 0 and 1 stored at 0x300 by F155 and loaded back by F165 *)
C14_Witness ==
  /\ cycles >= 2
  /\ RunsAt(prev2, "OP_Fx55")
  /\ Ran("OP_Fx65")
  /\ OpVx(Word) = 1
  /\ OpVx(Fetch(prev2, "layout")) = 1
  /\ prev.index = 768
  /\ prev2.memory[769] = 0
  /\ memory[768] = 7 /\ memory[769] = 200
  /\ registers[0] = 7 /\ registers[1] = 200

(* the cell a draw that starts in s computes for sprite bit rc = (row, column) *)
TargetCell(s, rc) ==
  LET op == Fetch(s, "layout")
  IN  ((s.registers[OpVx(op)] % VIDEO_WIDTH) + rc[2])
      + ((s.registers[OpVy(op)] % VIDEO_HEIGHT) + rc[1]) * VIDEO_WIDTH

(* a set sprite bit of the draw that starts in s targets a framebuffer cell
   that is on *)
Collides(s) ==
  \E rc \in SpriteBits(s) :
    /\ TargetCell(s, rc) < VIDEO_SIZE
    /\ s.video[TargetCell(s, rc)] = PIXEL_ON

(* C16: after Dxyn register[15] is 1 if at least one set sprite bit targeted
   a framebuffer cell that was on before the bit was applied and 0 otherwise,
   whatever register[15] held before the draw *)
C16_Collision ==
  Ran("OP_Dxyn") => registers[15] = (IF Collides(prev) THEN 1 ELSE 0)

(* what holds of a draw that stays inside the framebuffer *)
C16_CollisionInside ==
  (Ran("OP_Dxyn") /\ ~ub) => registers[15] = (IF Collides(prev) THEN 1 ELSE 0)

(* a draw inside the framebuffer that ends a nonzero register[15] as 0 and
   one that reports a collision *)
C16_FlagReset ==
  /\ Ran("OP_Dxyn") /\ ~ub
  /\ prev.registers[15] > 1
  /\ SpriteBits(prev) # {}
  /\ registers[15] = 0

(* a draw that reports a collision with no framebuffer cell *)
C16_CollisionOutside ==
  /\ Ran("OP_Dxyn") /\ ub
  /\ ~Collides(prev)
  /\ registers[15] = 1

(* C18: when keys are down Fx0A stores the smallest index of a key that is
   down in register[x] and changes no other register *)
C18_SmallestKey ==
  (Ran("OP_Fx0A") /\ \E k \in 0..(NUM_KEYS - 1) : prev.keypad[k] # 0) =>
    LET key == CHOOSE k \in 0..(NUM_KEYS - 1) :
                 prev.keypad[k] # 0 /\ \A j \in 0..(k - 1) : prev.keypad[j] = 0
    IN  registers = [prev.registers EXCEPT ![OpVx(Word)] = key]

(* keys 3 and 9 are down and FF0A stores 3 in register[15] *)
C18_Witness ==
  /\ Ran("OP_Fx0A")
  /\ prev.keypad[3] # 0 /\ prev.keypad[9] # 0
  /\ OpVx(Word) = 15
  /\ prev.registers[15] # 3
  /\ registers[15] = 3

(* the handlers that assign pc a target *)
Transfers == {"OP_00EE", "OP_1nnn", "OP_2nnn", "OP_Bnnn"}

(* C19 as stated: after a cycle on any instruction other than Fx0A pc
   differs from the address the instruction was fetched from *)
C19_AsStated ==
  (cycles >= 1 /\ prev.pc + 1 < MEMORY_SIZE /\ IsInstruction(Word)
     /\ ~Ran("OP_Fx0A")) =>
    pc # prev.pc

(* C19 amended: after a cycle that ran neither Fx0A nor a transfer of control
   (00EE, 1nnn, 2nnn, Bnnn) and made no access outside an array, pc is 2 or 4
   past the address the instruction was fetched from *)
C19_Progress ==
  (cycles >= 1 /\ ~ub /\ ~Ran("OP_Fx0A") /\ \A h \in Transfers : ~Ran(h)) =>
    pc \in {U16(prev.pc + 2), U16(prev.pc + 4)}

(* a skip taken: 3005 with register[0] = 5 leaves pc 4 past its address *)
C19_Witness ==
  /\ Ran("OP_3xkk") /\ ~ub
  /\ prev.registers[OpVx(Word)] = OpKK(Word)
  /\ pc = prev.pc + 4

(* a jump to its own address *)
C19_JumpToSelf ==
  /\ Ran("OP_1nnn")
  /\ OpNNN(Word) = prev.pc
  /\ pc = prev.pc

(* Fx33 whose store past the end of memory lands on pc and leaves it at the
   address of the Fx33 *)
C19_StoreOverPc ==
  /\ Ran("OP_Fx33") /\ ub
  /\ pc = prev.pc

(* C20: started from the constructed machine with a zero-filled program
   region, every cycle fetches its two bytes within memory, makes no access
   outside an array and does not end the run *)
C20_ZeroProgram ==
  (cycles >= 1 /\ ~loaded) =>
    /\ prev.pc + 1 < MEMORY_SIZE
    /\ ~ub
    /\ ~halted

(* the first 1792 cycles each run 00E0 on the word 0000 and move pc by 2 *)
C20_WalksTheRegion ==
  (cycles >= 1 /\ ~loaded /\ cycles <= (MEMORY_SIZE - START_ADDRESS) \div 2) =>
    /\ prev.pc = START_ADDRESS + 2 * (cycles - 1)
    /\ Word = 0
    /\ Ran("OP_00E0")
    /\ pc = prev.pc + 2
    /\ ~ub /\ ~halted

(* cycle 1793 fetches at pc = 4096 *)
C20_FetchPastMemory ==
  /\ ~loaded
  /\ cycles = (MEMORY_SIZE - START_ADDRESS) \div 2 + 1
  /\ prev.pc = MEMORY_SIZE
  /\ ub

(* C21: every framebuffer cell index that Dxyn reads or writes lies within
   0..2047, for every register[x], register[y] and height n *)
C21_CellsInside ==
  Ran("OP_Dxyn") =>
    \A rc \in SpriteBits(prev) : TargetCell(prev, rc) \in 0..(VIDEO_SIZE - 1)

(* a draw at row 63 whose second sprite row is read and written at cell 2048
   or beyond *)
C21_CellPastTheArray ==
  /\ Ran("OP_Dxyn") /\ ub
  /\ prev.registers[OpVy(Word)] = 63
  /\ \E rc \in SpriteBits(prev) : rc[1] = 1 /\ TargetCell(prev, rc) >= VIDEO_SIZE

(* a draw whose rows all lie above row 63 reads and writes inside the array *)
C21_InsideAboveLastRow ==
  (Ran("OP_Dxyn")
     /\ (prev.registers[OpVy(Word)] % VIDEO_HEIGHT) + OpN(Word) < VIDEO_HEIGHT) =>
    /\ \A rc \in SpriteBits(prev) : TargetCell(prev, rc) \in 0..(VIDEO_SIZE - 1)
    /\ ~ub

(* C22: for every word of the families 0x0, 0x8, 0xE and 0xF that a cycle
   fetches, the second-level index (low nibble, or low byte for 0xF) lies
   inside the declared bounds of its dispatch table *)
C22_IndexInTable ==
  (cycles >= 1 /\ prev.pc + 1 < MEMORY_SIZE
     /\ OpFamily(Word) \in {0, 8, 14, 15}) =>
    SlotInBounds(Word)

(* a word of family 0x0, 0x8 or 0xE with low nibble 0xF, or of family 0xF
   with a low byte above 0x65, was fetched and indexed past its table *)
C22_IndexPastTheTable ==
  /\ cycles >= 1 /\ prev.pc + 1 < MEMORY_SIZE
  /\ \/ OpFamily(Word) \in {0, 8, 14} /\ Word % 16 = TABLE0_SIZE
     \/ OpFamily(Word) = 15 /\ Word % 256 >= TABLEF_SIZE
  /\ ub

(* the index of each of the 35 instructions lies inside its table *)
C22_InstructionsInTable ==
  (cycles >= 1 /\ prev.pc + 1 < MEMORY_SIZE /\ IsInstruction(Word)) =>
    SlotInBounds(Word)

====
